---- MODULE Spec2Model ----
(***************************************************************************)
(* Agent execution and hierarchical routing engine of taupo (@taupo/ai):  *)
(* Agent / RouterAgent call handling, message windowing, the hidden       *)
(* writer channel of tool() and the artifact merge reducer.               *)
(***************************************************************************)
EXTENDS Integers, Sequences, FiniteSets, TLC

(* ---------------------------------------------------------------------- *)
(* Bounds                                                                  *)
(* ---------------------------------------------------------------------- *)
MaxMsgs == 2
MaxWindow == 1
MaxTrace == 2
MaxLeafWrites == 1

(* ---------------------------------------------------------------------- *)
(* Optional values: undefined is the empty sequence, a value is <<v>>      *)
(* ---------------------------------------------------------------------- *)
Undefined == <<>>
Some(x) == <<x>>
IsDef(o) == o # <<>>
Val(o) == o[1]
Opt(S) == {Undefined} \cup {Some(x) : x \in S}

(* ---------------------------------------------------------------------- *)
(* The agent graph: RouterAgent "A" owns RouterAgent "B" and Agent "D";    *)
(* "B" owns Agents "C" and "E".                                            *)
(* ---------------------------------------------------------------------- *)
Routers == {"A", "B"}
Leaves == {"C", "D", "E"}
AgentNames == Routers \cup Leaves
Ghost == "ghost"

\* settings.subAgents of each RouterAgent, in the order supplied
SubAgentList(r) == IF r = "A" THEN <<"B", "D">> ELSE <<"C", "E">>

\* agentEnum: the names the selectAgent tool's z.enum accepts
agentEnum(r) == {SubAgentList(r)[i] : i \in 1..Len(SubAgentList(r))}

\* RouterAgent.subAgents: Map name -> agent (keys of the reduce)
subAgentsSharedRegistryBug(r) == {"B", "D"}

subAgents(r) == {SubAgentList(r)[i] : i \in 1..Len(SubAgentList(r))}

\* Agent.maxMessagesInContext (settings.maxMessagesInContext)
AgentMax(a) ==
    CASE a = "A" -> Undefined
      [] a = "B" -> Some(1)
      [] a = "C" -> Some(2)
      [] a = "D" -> Undefined
      [] OTHER   -> Some(0)

(* ---------------------------------------------------------------------- *)
(* AgentCallParameters                                                     *)
(* ---------------------------------------------------------------------- *)
MessageLists == {[i \in 1..n |-> i] : n \in 0..MaxMsgs}

\* options and abortSignal are carried along and never read by the agents:
\* the calls drawn give both or neither
AgentCallParameters ==
    {p \in [prompt : Opt({"p"}),
            messages : Opt(MessageLists),
            options : Opt({"o"}),
            abortSignal : Opt({"sig"}),
            maxMessagesInContext : Opt(0..MaxWindow),
            writer : Opt({"W"})] :
        IsDef(p.options) = IsDef(p.abortSignal)}

\* Array.prototype.slice(start) with one argument
JsSlice(s, start) ==
    LET len == Len(s)
        k == IF start < 0
             THEN (IF len + start > 0 THEN len + start ELSE 0)
             ELSE (IF start < len THEN start ELSE len)
    IN [i \in 1..(len - k) |-> s[k + i]]

\* options.maxMessagesInContext ?? this.maxMessagesInContext
EffectiveMaxNullishBug(callMax, agentMax) ==
    IF IsDef(callMax) /\ Val(callMax) # 0 THEN callMax ELSE agentMax

EffectiveMax(callMax, agentMax) ==
    IF IsDef(callMax) THEN callMax ELSE agentMax

\* Agent.limitMessageContextLength: a copy of options, messages sliced
limitMessageContextLength(a, options) ==
    LET maxMessagesInContext ==
            EffectiveMax(options.maxMessagesInContext, AgentMax(a))
    IN IF IsDef(options.messages) /\ Len(Val(options.messages)) # 0
          /\ IsDef(maxMessagesInContext)
       THEN [options EXCEPT
               !.messages = Some(JsSlice(Val(options.messages),
                                         0 - Val(maxMessagesInContext)))]
       ELSE options

\* the local maxMessagesInContext of limitMessageContextLength
WindowOf(a, options) ==
    EffectiveMax(options.maxMessagesInContext, AgentMax(a))

(* ---------------------------------------------------------------------- *)
(* Self-run traces of a RouterAgent: the content parts / stream chunks     *)
(* the model-invocation loop yields.  The only tool of a router is         *)
(* selectAgent, whose output is { agentId }.                               *)
(* ---------------------------------------------------------------------- *)
TextChunk == [type |-> "text", toolName |-> "", agentId |-> ""]
SelectResult(x) == [type |-> "tool-result", toolName |-> "selectAgent", agentId |-> x]
Chunks(r) == {TextChunk} \cup {SelectResult(x) : x \in agentEnum(r) \cup {Ghost}}
Traces(r) == UNION {[1..n -> Chunks(r)] : n \in 0..MaxTrace}

IsSelect(c) == c.type = "tool-result" /\ c.toolName = "selectAgent"

\* RouterAgent.generate: steps.flatMap(content).find(selectAgent result)?.output.agentId
GenerateFind(tr) ==
    LET hits == {i \in 1..Len(tr) : IsSelect(tr[i])}
    IN IF hits = {} THEN Undefined
       ELSE Some(tr[CHOOSE i \in hits : \A j \in hits : i <= j].agentId)

\* RouterAgent.stream: body of the for-await loop over fullStream
StreamChunkUpdate(id, chunk) ==
    IF IsSelect(chunk) THEN Some(chunk.agentId) ELSE id

\* RouterAgent.stream: agentId after the whole loop
RECURSIVE StreamScan(_, _)
StreamScan(id, tr) ==
    IF tr = <<>> THEN id
    ELSE StreamScan(StreamChunkUpdate(id, Head(tr)), Tail(tr))

\* if (agentId) { agent = this.subAgents.get(agentId) }
ResolveAnyBug(r, id) ==
    IF IsDef(id) THEN Some(SubAgentList(r)[1]) ELSE Undefined

Resolve(r, id) ==
    IF IsDef(id) /\ Val(id) \in subAgents(r) THEN id ELSE Undefined

(* ---------------------------------------------------------------------- *)
(* The hidden writer channel: prepareCall of Agent and execute of tool()   *)
(* A context object is a function from CtxKeys to a value or Absent (the   *)
(* key is not an own property).  JsUndefined is the value `undefined`.     *)
(* ---------------------------------------------------------------------- *)
CtxKeys == {"userId", "writer", "_writer"}
Absent == "absent"
JsUndefined == "undefined"
TheWriter == "W"
EmptyCtx == [k \in CtxKeys |-> Absent]
Contexts(v) == [CtxKeys -> {Absent, v}]

\* { ...a, ...b }
Spread(a, b) == [k \in CtxKeys |-> IF b[k] # Absent THEN b[k] ELSE a[k]]

\* the else-branch of prepareCall: settings context overlaid by the call's
\* options.experimental_context
DefaultPrepared(settingsCtx, callCtx) == Spread(settingsCtx, callCtx)

\* return { ...preparedSettings, experimental_context: { ...ctx, _writer: writer } }
InjectWriterPublicKeyBug(ctx, w) == [ctx EXCEPT !["writer"] = w]

InjectWriter(ctx, w) == [ctx EXCEPT !["_writer"] = w]

\* const { _writer, ...experimental_context } = options.experimental_context
StripWriterKeepBug(ctx) == ctx

StripWriter(ctx) == [ctx EXCEPT !["_writer"] = Absent]

\* writer: _writer
ExtractWriter(ctx) == IF ctx["_writer"] = Absent THEN JsUndefined ELSE ctx["_writer"]

VARIABLES
    tpc,          \* "idle" | "prepared" | "executed"
    tKind,        \* "wrapped": built with tool(); "sdk": built with the SDK's tool
    tWriter,      \* callOptions.writer: TheWriter or JsUndefined
    tUserCtx,     \* preparedSettings.experimental_context: the caller's context
    tLoopCtx,     \* experimental_context handed to the model-invocation loop
    tExecCtx,     \* options.experimental_context seen by config.execute
    tExecWriter   \* options.writer seen by config.execute

toolVars == <<tpc, tKind, tWriter, tUserCtx, tLoopCtx, tExecCtx, tExecWriter>>

ToolInit ==
    /\ tpc = "idle"
    /\ tKind = "wrapped"
    /\ tWriter = JsUndefined
    /\ tUserCtx = EmptyCtx
    /\ tLoopCtx = EmptyCtx
    /\ tExecCtx = EmptyCtx
    /\ tExecWriter = JsUndefined

\* the prepareCall wrapper of the Agent constructor; settings.prepareCall, when
\* given, returns a context of the agent author's choosing
PrepareCall ==
    /\ tpc = "idle"
    /\ \E w \in {TheWriter, JsUndefined}, custom \in BOOLEAN,
          settingsCtx \in Contexts("s"), callCtx \in Contexts("u") :
          LET prepared == IF custom THEN callCtx
                          ELSE DefaultPrepared(settingsCtx, callCtx)
          IN /\ tWriter' = w
             /\ tUserCtx' = prepared
             /\ tLoopCtx' = InjectWriter(prepared, w)
    /\ tpc' = "prepared"
    /\ UNCHANGED <<tKind, tExecCtx, tExecWriter>>

\* the execute wrapper of tool(): strip _writer, hand it over as options.writer
ToolExecute ==
    /\ tpc = "prepared"
    /\ tKind' = "wrapped"
    /\ tExecCtx' = StripWriter(tLoopCtx)
    /\ tExecWriter' = ExtractWriter(tLoopCtx)
    /\ tpc' = "executed"
    /\ UNCHANGED <<tWriter, tUserCtx, tLoopCtx>>

\* execute of the router's selectAgent, built with the SDK's own tool(): the
\* loop hands it experimental_context as prepared, and no options.writer
SelectAgentExecute ==
    /\ tpc = "prepared"
    /\ tKind' = "sdk"
    /\ tExecCtx' = tLoopCtx
    /\ tExecWriter' = JsUndefined
    /\ tpc' = "executed"
    /\ UNCHANGED <<tWriter, tUserCtx, tLoopCtx>>

\* the model-invocation loop makes its next call
ToolCallEnds ==
    /\ tpc = "executed"
    /\ tpc' = "idle"
    /\ UNCHANGED <<tKind, tWriter, tUserCtx, tLoopCtx, tExecCtx, tExecWriter>>

(* ---------------------------------------------------------------------- *)
(* artifact(): create / update over JSON values.  A value carries a tag t   *)
(* ("prim", "null", "arr", "rec"; "nofield" says the key is not there), a   *)
(* payload p (the primitive or the array, as text) and, for a record, its   *)
(* fields f.  Top-level records have the keys a, b; records nested in them  *)
(* the keys c, d.                                                           *)
(* ---------------------------------------------------------------------- *)
MaxUpdates == 2

TopKeys == {"a", "b"}
InnerKeys == {"c", "d"}

\* values inside a nested record
Leaf(tag, text) == [t |-> tag, p |-> text]
NoLeaf == Leaf("nofield", "")
LeafValues == {Leaf("prim", "1"), Leaf("prim", "2")}

\* values of the fields of a top-level record
NoInnerFields == [k \in InnerKeys |-> NoLeaf]
Inner(tag, text) == [t |-> tag, p |-> text, f |-> NoInnerFields]
InnerRec(fields) == [t |-> "rec", p |-> "", f |-> fields]
NoInner == Inner("nofield", "")
InnerRecs == {InnerRec(fields) : fields \in [InnerKeys -> LeafValues \cup {NoLeaf}]}
InnerValues ==
    InnerRecs \cup {Inner("arr", "1,2"), Inner("arr", "3"), Inner("prim", "1"),
                    Inner("null", "")}

\* the values handed to create and update
NoTopFields == [k \in TopKeys |-> NoInner]
Top(tag, text) == [t |-> tag, p |-> text, f |-> NoTopFields]
TopRec(a, b) ==
    [t |-> "rec", p |-> "", f |-> [k \in TopKeys |-> IF k = "a" THEN a ELSE b]]
JsonValues ==
    {TopRec(a, b) : a \in {NoInner, Inner("prim", "1"), Inner("null", "")},
                    b \in {NoInner} \cup InnerValues}
        \cup {Top("null", ""), Top("prim", "1"), Top("arr", "3")}
EmptyObject == TopRec(NoInner, NoInner)

\* outputSchema: whether it has a partial() method, what partial().parse({})
\* returns, and what it accepts: an object whose field `a` is a number, or
\* any JSON value
Schema(hasPartial, defaults, accepts) ==
    [partial |-> hasPartial, defaults |-> defaults, accepts |-> accepts]
ArtifactSchemas ==
    {Schema(FALSE, EmptyObject, "object"),
     Schema(TRUE, EmptyObject, "object"),
     Schema(TRUE, TopRec(Inner("prim", "2"), InnerRec(NoInnerFields)), "object"),
     Schema(FALSE, EmptyObject, "any")}

\* validateTypes({ value, schema }) resolves
Validates(schema, value) ==
    \/ schema.accepts = "any"
    \/ value.t = "rec" /\ value.f["a"].t = "prim"

SpreadRecArrayKeptBug(x, y) ==
    [x EXCEPT !.f = [k \in DOMAIN x.f |->
                        IF y.f[k].t = "nofield" \/ (x.f[k].t = "arr" /\ y.f[k].t = "arr")
                        THEN x.f[k] ELSE y.f[k]]]

\* { ...x, ...y } of two records of one level
SpreadRec(x, y) ==
    [x EXCEPT !.f = [k \in DOMAIN x.f |->
                        IF y.f[k].t # "nofield" THEN y.f[k] ELSE x.f[k]]]

mergeWithPartialDefaults(schema, current, updates) ==
    LET canSpread == current.t = "rec" /\ updates.t = "rec"
    IN IF ~canSpread THEN updates
       ELSE IF schema.partial
            THEN SpreadRec(SpreadRec(schema.defaults, current), updates)
            ELSE SpreadRec(current, updates)

VARIABLES
    apc,          \* "none" | "live" (create returned the handle) | "failed"
    artSchema,    \* outputSchema of the artifact
    artArg,       \* the data argument of the latest create / update call
    artCtx,       \* the context argument of create
    artWriter,    \* the closure variable writer
    currentData,  \* the closure variable currentData
    artWritten,   \* data of the latest data-artifact event written
    artWrites,    \* number of data-artifact events written to artWriter
    artUpdates,   \* number of update calls made
    artError      \* what the latest create / update call rejected with

artVars == <<apc, artSchema, artArg, artCtx, artWriter, currentData,
             artWritten, artWrites, artUpdates, artError>>

ArtInit ==
    /\ apc = "none"
    /\ artSchema = Schema(FALSE, EmptyObject, "object")
    /\ artArg = Top("null", "")
    /\ artCtx = EmptyCtx
    /\ artWriter = JsUndefined
    /\ currentData = Top("null", "")
    /\ artWritten = Top("null", "")
    /\ artWrites = 0
    /\ artUpdates = 0
    /\ artError = Undefined

\* const writer = (context as { writer?: UIMessageStreamWriter })?.writer
ContextWriter(context) ==
    IF context["writer"] = Absent THEN JsUndefined ELSE context["writer"]

MissingWriterIgnoredBug(writer) == FALSE

\* if (!writer)
MissingWriter(writer) == writer = JsUndefined

CreateEmitsMergedBug(data, merged) == merged

\* writer.write({ type: 'data-artifact', id, data })
CreateEmits(data, merged) == data

\* the body of create(data, context)
Create(schema, data, context) ==
    LET writer == ContextWriter(context)
        merged == mergeWithPartialDefaults(schema, EmptyObject, data)
    IN /\ artSchema' = schema
       /\ artArg' = data
       /\ artCtx' = context
       /\ IF MissingWriter(writer)
          THEN /\ artError' = Some("No writer found in execution options")
               /\ apc' = "failed"
               /\ UNCHANGED <<artWriter, currentData, artWritten, artWrites>>
          ELSE IF ~Validates(schema, merged)
          THEN /\ artError' = Some("TypeValidationError")
               /\ apc' = "failed"
               /\ artWriter' = writer
               /\ currentData' = merged
               /\ UNCHANGED <<artWritten, artWrites>>
          ELSE /\ artError' = Undefined
               /\ apc' = "live"
               /\ artWriter' = writer
               /\ currentData' = merged
               /\ artWritten' = CreateEmits(data, merged)
               /\ artWrites' = artWrites + 1
       /\ UNCHANGED artUpdates

\* the contexts create is called with: one without and one with a writer
CreateContexts == {EmptyCtx, [EmptyCtx EXCEPT !["writer"] = TheWriter]}

\* artifact({ id, outputSchema }).create(data, context)
ArtifactCreate ==
    /\ apc = "none"
    /\ \E schema \in ArtifactSchemas, data \in JsonValues,
          context \in CreateContexts :
          Create(schema, data, context)

\* the initial values a tool creates its artifact with
ToolArtifactData ==
    {TopRec(Inner("prim", "1"), Inner("arr", "3")), EmptyObject}

\* execute of a tool: artifact.create(initial, options.experimental_context)
ToolCreatesArtifact ==
    /\ tpc = "executed"
    /\ apc = "none"
    /\ \E schema \in ArtifactSchemas, data \in ToolArtifactData :
          Create(schema, data, tExecCtx)
    /\ UNCHANGED toolVars

UpdateWritesUnvalidatedBug(schema, merged) == TRUE

\* update reaches its writer.write: the awaited validateTypes before it resolved
UpdateWrites(schema, merged) == Validates(schema, merged)

\* the update handle returned by create
ArtifactUpdate ==
    /\ apc = "live"
    /\ artUpdates < MaxUpdates
    /\ \E partialData \in JsonValues :
          LET merged == mergeWithPartialDefaults(artSchema, currentData, partialData)
          IN /\ artArg' = partialData
             /\ currentData' = merged
             /\ IF UpdateWrites(artSchema, merged)
                THEN /\ artError' = Undefined
                     /\ artWritten' = merged
                     /\ artWrites' = artWrites + 1
                ELSE /\ artError' = Some("TypeValidationError")
                     /\ UNCHANGED <<artWritten, artWrites>>
    /\ artUpdates' = artUpdates + 1
    /\ UNCHANGED <<apc, artSchema, artCtx, artWriter>>

(* ---------------------------------------------------------------------- *)
(* Introspection: getAgentTree of Agent and RouterAgent over the live      *)
(* sub-agent maps.  A node has the keys of AgentInfoNode; a key that is    *)
(* not set is Undefined.                                                   *)
(* ---------------------------------------------------------------------- *)
MaxMutations == 2

\* Object.keys(agent.tools) of each leaf; D was built without tools
ToolNames(a) ==
    CASE a = "C" -> Some(<<"testTool">>)
      [] a = "E" -> Some(<<"t1", "t2">>)
      [] OTHER   -> Undefined

\* Agent.info: name, capabilities and the model id (undefined when
\* settings.model is a string, as for D)
AgentInfo(a) ==
    [name |-> a,
     capabilities |-> IF a \in Routers
                      THEN "Routes requests to the appropriate sub-agent"
                      ELSE "caps",
     model |-> IF a = "D" THEN Undefined ELSE Some("model-id")]

Node(type, info, tools, subs) ==
    [type |-> type, name |-> info.name, capabilities |-> info.capabilities,
     model |-> info.model, tools |-> tools, subAgents |-> subs]
NoNode ==
    Node("", [name |-> "", capabilities |-> "", model |-> Undefined],
         Undefined, Undefined)

\* Agent.getAgentTree: { type: 'agent', ...this.info }
AgentNode(a) == Node("agent", AgentInfo(a), Undefined, Undefined)

\* the leaf branch of the map callback of RouterAgent.getAgentTree:
\* { ...agent.info, type: 'agent', tools }
SubAgentNode(a) ==
    Node("agent", AgentInfo(a),
         Some(IF IsDef(ToolNames(a)) THEN Val(ToolNames(a)) ELSE <<>>),
         Undefined)

SubAgentValuesCachedBug(m, r) == SubAgentList(r)

\* Array.from(this.subAgents.values())
SubAgentValues(m, r) == m[r]

\* RouterAgent.getAgentTree of router r over the sub-agent maps m
RECURSIVE RouterNode(_, _)
RouterNode(r, m) ==
    LET values == SubAgentValues(m, r)
    IN Node("router", AgentInfo(r), Undefined,
            Some([i \in 1..Len(values) |->
                    IF values[i] \in Routers
                    THEN RouterNode(values[i], m)
                    ELSE SubAgentNode(values[i])]))

\* agent.getAgentTree()
getAgentTree(a, m) == IF a \in Routers THEN RouterNode(a, m) ELSE AgentNode(a)

VARIABLES
    rmap,         \* RouterAgent.subAgents of each router: its values, in map order
    described,    \* the agent of the latest getAgentTree call
    tree,         \* what that call returned
    dirty,        \* a sub-agent map was changed since that call
    mutations     \* number of changes made to the sub-agent maps

treeVars == <<rmap, described, tree, dirty, mutations>>

TreeInit ==
    /\ rmap = [r \in Routers |-> SubAgentList(r)]
    /\ described = Undefined
    /\ tree = NoNode
    /\ dirty = FALSE
    /\ mutations = 0

\* GET /agent/:name/metadata: agent.getAgentTree() of a registered agent
Describe ==
    /\ \E a \in AgentNames :
          /\ described' = Some(a)
          /\ tree' = getAgentTree(a, rmap)
    /\ dirty' = FALSE
    /\ UNCHANGED <<rmap, mutations>>

InMap(m, r, a) == \E i \in 1..Len(m[r]) : m[r][i] = a

\* the agents a router's map may hold: the nesting stays a tree
Nestable(r) == IF r = "A" THEN {"B"} \cup Leaves ELSE Leaves

\* router.subAgents.set(agent.info.name, agent) with a new key
SubAgentSet ==
    /\ mutations < MaxMutations
    /\ \E r \in Routers : \E a \in Nestable(r) :
          /\ ~InMap(rmap, r, a)
          /\ rmap' = [rmap EXCEPT ![r] = Append(@, a)]
    /\ dirty' = TRUE
    /\ mutations' = mutations + 1
    /\ UNCHANGED <<described, tree>>

\* router.subAgents.delete(name)
SubAgentDelete ==
    /\ mutations < MaxMutations
    /\ \E r \in Routers : \E a \in Nestable(r) :
          /\ InMap(rmap, r, a)
          /\ rmap' = [rmap EXCEPT ![r] = SelectSeq(@, LAMBDA x : x # a)]
    /\ dirty' = TRUE
    /\ mutations' = mutations + 1
    /\ UNCHANGED <<described, tree>>

(* ---------------------------------------------------------------------- *)
(* Construction of a RouterAgent from settings.subAgents.  An agent object *)
(* is [id, name]: id tells the objects apart, name is agent.info.name.     *)
(* ---------------------------------------------------------------------- *)
MaxSubAgents == 3

\* the agent objects a list may hold: two of them share the name "x", one
\* has the empty name
AgentObjects ==
    {[id |-> 1, name |-> "x"], [id |-> 2, name |-> "y"],
     [id |-> 3, name |-> "x"], [id |-> 4, name |-> ""]}

\* settings.subAgents: lists of different agent objects, none empty
SubAgentLists ==
    {l \in UNION {[1..n -> AgentObjects] : n \in 1..MaxSubAgents} :
        \A i, j \in 1..Len(l) : i # j => l[i] # l[j]}

\* Map.prototype.set: a known key keeps its place and takes the new value
MapSet(m, k, v) ==
    IF \E i \in 1..Len(m) : m[i].key = k
    THEN [i \in 1..Len(m) |-> IF m[i].key = k THEN [key |-> k, agent |-> v] ELSE m[i]]
    ELSE Append(m, [key |-> k, agent |-> v])

\* settings.subAgents.reduce((map, agent) => map.set(agent.info.name, agent), new Map())
RECURSIVE ReduceToMap(_, _)
ReduceToMap(m, l) ==
    IF l = <<>> THEN m
    ELSE ReduceToMap(MapSet(m, Head(l).name, Head(l)), Tail(l))

\* subAgents.keys().toArray()
MapKeys(m) == [i \in 1..Len(m) |-> m[i].key]

\* this.subAgents.get(key)
MapGet(m, k) ==
    IF \E i \in 1..Len(m) : m[i].key = k
    THEN Some((CHOOSE e \in {m[i] : i \in 1..Len(m)} : e.key = k).agent)
    ELSE Undefined

\* createAgentInstructions: one "- name" line per agent of the list given
InstructionNames(l) == [i \in 1..Len(l) |-> l[i].name]

\* if (agentId) { agent = this.subAgents.get(agentId) }
RouteLookup(m, id) == IF id = "" THEN Undefined ELSE MapGet(m, id)

VARIABLES
    cpc,          \* "new" | "built" | "routed"
    cList,        \* settings.subAgents
    cMap,         \* this.subAgents: its entries in map order
    cEnum,        \* agentEnum
    cInstr,       \* the agent names listed in the instructions
    cAsked,       \* the agentId of the latest selectAgent result
    cFound        \* the agent the router resolved for it

consVars == <<cpc, cList, cMap, cEnum, cInstr, cAsked, cFound>>

ConsInit ==
    /\ cpc = "new"
    /\ cList = <<>>
    /\ cMap = <<>>
    /\ cEnum = <<>>
    /\ cInstr = <<>>
    /\ cAsked = ""
    /\ cFound = Undefined

\* new RouterAgent({ subAgents, ... })
Construct ==
    /\ cpc = "new"
    /\ \E l \in SubAgentLists :
          LET m == ReduceToMap(<<>>, l)
          IN /\ cList' = l
             /\ cMap' = m
             /\ cEnum' = MapKeys(m)
             /\ cInstr' = InstructionNames(l)
    /\ cpc' = "built"
    /\ UNCHANGED <<cAsked, cFound>>

\* a self-run yields a selectAgent result naming one of the enum values, and
\* the router resolves it
RouteTo ==
    /\ cpc \in {"built", "routed"}
    /\ \E i \in 1..Len(cEnum) :
          /\ cAsked' = cEnum[i]
          /\ cFound' = RouteLookup(cMap, cEnum[i])
    /\ cpc' = "routed"
    /\ UNCHANGED <<cList, cMap, cEnum, cInstr>>

(* ---------------------------------------------------------------------- *)
(* The HTTP routes of one agent server: one request and its response.      *)
(* A request body is named by what it holds.                               *)
(* ---------------------------------------------------------------------- *)
MaxSse == 2

Endpoints == {"metadata", "generate", "stream", "chat"}
RegisteredKeys == {"testAgent"}
RequestNames == RegisteredKeys \cup {"non-existent"}

\* request bodies: no JSON at all, nothing, the JSON null, {}, { prompt },
\* { messages: [...] }, { messages: "text" }, { prompt, messages: [...] }
Bodies ==
    {"invalid json", "", "null", "{}", "prompt", "messages",
     "messages-not-array", "prompt+messages"}

\* await c.req.json(): "SyntaxError", or "TypeError" for the property read
\* on null that follows, or "object"
ParseBody(body) ==
    IF body \in {"invalid json", ""} THEN "SyntaxError"
    ELSE IF body = "null" THEN "TypeError"
    ELSE "object"

\* !!body.prompt, !!body.messages, Array.isArray(body.messages)
HasPrompt(body) == body \in {"prompt", "prompt+messages"}
HasMessages(body) == body \in {"messages", "messages-not-array", "prompt+messages"}
MessagesIsArray(body) == body \in {"messages", "prompt+messages"}

\* createErrorResponse: { status, error, ...(details && { details }) }
createErrorResponse(status, error, details) ==
    [status |-> status, error |-> error,
     details |-> IF details = "" THEN Undefined ELSE Some(details)]

\* what a handler returns: the HTTP status, the JSON body (NoBody for a
\* stream or a result), whether agent.generate / agent.stream was called and
\* whether a streamed response was started
Reply(status, body, invoked, streaming) ==
    [status |-> status, body |-> body, invoked |-> invoked, streaming |-> streaming]
NoBody == createErrorResponse(0, "", "")

\* errorResponse: c.json(createErrorResponse(status, error, details), status)
errorResponse(status, error, details, invoked) ==
    Reply(status, createErrorResponse(status, error, details), invoked, FALSE)

agentNotFound(name) ==
    errorResponse(404, "Agent not found", "No agent registered with name: " \o name, FALSE)
invalidRequestBody(details) == errorResponse(400, "Invalid request body", details, FALSE)
agentExecutionError(message, invoked) ==
    errorResponse(500, "Agent execution failed", message, invoked)

NotFoundSkippedBug(name) == FALSE

\* const agent = agents.get(agentName); if (!agent)
NotFound(name) == name \notin RegisteredKeys

\* the handlers of routes.ts; rejects says whether the awaited agent.generate,
\* agent.stream or createAgentUIStreamResponse rejects
Handle(endpoint, name, body, rejects) ==
    IF NotFound(name) THEN agentNotFound(name)
    ELSE IF endpoint = "metadata" THEN Reply(200, NoBody, FALSE, FALSE)
    ELSE IF ParseBody(body) = "SyntaxError"
    THEN invalidRequestBody("Invalid JSON in request body")
    ELSE IF ParseBody(body) = "TypeError"
    THEN agentExecutionError("Cannot read properties of null", FALSE)
    ELSE IF endpoint # "chat" /\ ~HasPrompt(body) /\ ~HasMessages(body)
    THEN invalidRequestBody("Request must include either \"prompt\" or \"messages\" field")
    ELSE IF endpoint = "chat" /\ (~HasMessages(body) \/ ~MessagesIsArray(body))
    THEN invalidRequestBody("Request must include \"messages\" array")
    ELSE IF rejects THEN agentExecutionError("model invocation failed", endpoint # "chat")
    ELSE Reply(200, NoBody, endpoint # "chat", endpoint # "generate")

VARIABLES
    hpc,          \* "idle" | "streaming" | "closed"
    hReq,         \* the request: endpoint, name, body
    hReply,       \* what the handler returned
    hSse,         \* the events written to the streamed response
    hFailed       \* the model invocation or a tool failed while streaming

httpVars == <<hpc, hReq, hReply, hSse, hFailed>>

HttpInit ==
    /\ hpc = "idle"
    /\ hReq = [endpoint |-> "metadata", name |-> "testAgent", body |-> ""]
    /\ hReply = Reply(0, NoBody, FALSE, FALSE)
    /\ hSse = <<>>
    /\ hFailed = FALSE

\* one request is routed to its handler, which returns its response
HandleRequest ==
    /\ hpc = "idle"
    /\ \E endpoint \in Endpoints, name \in RequestNames, body \in Bodies,
          rejects \in BOOLEAN :
          /\ hReq' = [endpoint |-> endpoint, name |-> name, body |-> body]
          /\ hReply' = Handle(endpoint, name, body, rejects)
    /\ hpc' = IF hReply'.streaming THEN "streaming" ELSE "closed"
    /\ UNCHANGED <<hSse, hFailed>>

\* handleStreamResponse: one chunk of fullStream is written as an SSE event
SseChunk ==
    /\ hpc = "streaming"
    /\ Len(hSse) < MaxSse
    /\ hSse' = Append(hSse, "chunk")
    /\ UNCHANGED <<hpc, hReq, hReply, hFailed>>

\* the stream throws: the catch block writes an error event, the stream ends
SseFails ==
    /\ hpc = "streaming"
    /\ hSse' = Append(hSse, "error")
    /\ hFailed' = TRUE
    /\ hpc' = "closed"
    /\ UNCHANGED <<hReq, hReply>>

\* fullStream ends
SseEnds ==
    /\ hpc = "streaming"
    /\ hpc' = "closed"
    /\ UNCHANGED <<hReq, hReply, hSse, hFailed>>

(* ---------------------------------------------------------------------- *)
(* createAgentUIStreamResponse: the events a chat client sees.  An event   *)
(* is [type, id]; id is the message id it carries ("" when it has none).   *)
(* ---------------------------------------------------------------------- *)
MaxUiChunks == 2

UiEvent(type, id) == [type |-> type, id |-> id]

\* what agent.stream writes to the writer before it returns its stream
\* handle: nothing for a leaf, the status and handoff events of each router
\* on the way for a router (hops delegations deep)
RouterUiEvents(hops) ==
    CASE hops = 0 -> <<>>
      [] hops = 1 -> <<UiEvent("data-status", "")>>
      [] hops = 2 -> <<UiEvent("data-status", ""), UiEvent("data-handoff", ""),
                       UiEvent("data-status", "")>>
      [] OTHER    -> <<UiEvent("data-status", ""), UiEvent("data-handoff", ""),
                       UiEvent("data-status", ""), UiEvent("data-status", ""),
                       UiEvent("data-handoff", ""), UiEvent("data-status", "")>>

MergedOptionsCallerWinsBug(streamOptions, messageId) ==
    [sendStart |-> streamOptions.sendStart, id |-> "merged-id"]

\* { ...streamOptions, generateMessageId: () => messageId, sendStart: false }
MergedOptions(streamOptions, messageId) ==
    [sendStart |-> Some(FALSE), id |-> messageId]

VARIABLES
    upc,          \* "idle" | "created" | "merging" | "closed"
    uOptions,     \* streamOptions: sendStart, and whether generateMessageId is given
    uHops,        \* 0: the agent is a leaf; n: a router reached through n - 1 delegations
    messageId,    \* the const messageId
    uIdCalls,     \* how often an id was generated for the request
    uMerged,      \* the options toUIMessageStream was called with
    uOut          \* the events of the response, in order

uiVars == <<upc, uOptions, uHops, messageId, uIdCalls, uMerged, uOut>>

UiInit ==
    /\ upc = "idle"
    /\ uOptions = [sendStart |-> Undefined, generate |-> FALSE]
    /\ uHops = 0
    /\ messageId = ""
    /\ uIdCalls = 0
    /\ uMerged = MergedOptions(uOptions, "")
    /\ uOut = <<>>

\* createAgentUIStreamResponse up to createUIMessageStream
UiCreate ==
    /\ upc = "idle"
    /\ \E sendStart \in Opt(BOOLEAN), generate \in BOOLEAN, hops \in 0..3 :
          /\ uOptions' = [sendStart |-> sendStart, generate |-> generate]
          /\ uHops' = hops
          /\ messageId' = IF generate THEN "caller-id" ELSE "generated-id"
    /\ uIdCalls' = uIdCalls + 1
    /\ upc' = "created"
    /\ UNCHANGED <<uMerged, uOut>>

\* execute: the start event, agent.stream with the writer, writer.merge
UiExecute ==
    /\ upc = "created"
    /\ uOut' = (IF uOptions.sendStart # Some(FALSE)
                THEN <<UiEvent("start", messageId)>> ELSE <<>>)
               \o RouterUiEvents(uHops)
    /\ uMerged' = MergedOptions(uOptions, messageId)
    /\ upc' = "merging"
    /\ UNCHANGED <<uOptions, uHops, messageId, uIdCalls>>

\* the merged stream yields its next event: a start first unless its
\* sendStart is false, then the chunks of the message under its message id
UiMergedEvent ==
    /\ upc = "merging"
    /\ Cardinality({i \in 1..Len(uOut) : uOut[i].type = "text-delta"}) < MaxUiChunks
    /\ LET first == \A i \in 1..Len(uOut) : uOut[i].type \notin {"text-delta", "merged-start"}
       IN uOut' = IF first /\ uMerged.sendStart # Some(FALSE)
                  THEN Append(uOut, UiEvent("merged-start", uMerged.id))
                  ELSE Append(uOut, UiEvent("text-delta", uMerged.id))
    /\ UNCHANGED <<upc, uOptions, uHops, messageId, uIdCalls, uMerged>>

\* the merged stream ends and the response is closed
UiClose ==
    /\ upc = "merging"
    /\ upc' = "closed"
    /\ UNCHANGED <<uOptions, uHops, messageId, uIdCalls, uMerged, uOut>>

(* ---------------------------------------------------------------------- *)
(* Two top-level calls in flight on the same RouterAgent ("B").  Each      *)
(* invocation of generate / stream has its own activation record (options, *)
(* writer, routerStream, agentId, agent); the router object is shared.     *)
(* ---------------------------------------------------------------------- *)
WriterEvent(t, d) == [type |-> t, data |-> d]
StatusDetermining == WriterEvent("data-status", "Determining sub-agent to route to...")
StatusExecuting == WriterEvent("data-status", "Executing sub-agent...")
Handoff(a) == WriterEvent("data-handoff", a)

MaxConcTrace == 1

Calls == {1, 2}

SlotSharedBug(call) == 1

\* `let agentId` is a local of the invocation: one slot per call
Slot(call) == call

VARIABLES
    kpc,          \* per call: "idle" | "selfrun" | "scanned" | "sub" | "done"
    kmode,        \* per call: "generate" | "stream"
    kparams,      \* per call: the options it was issued with
    kseen,        \* per call: what its own self-run has produced so far
    kAgentId,     \* the agentId locals
    kOut,         \* per writer: the events it received, in order
    kResult,      \* per call: the value it resolved to
    routerConfig  \* the router object: subAgents, maxMessagesInContext

concVars == <<kpc, kmode, kparams, kseen, kAgentId, kOut, kResult, routerConfig>>

NoResult == [by |-> "", kind |-> "", events |-> <<>>, params |-> ""]

ConcInit ==
    /\ kpc = [k \in Calls |-> "idle"]
    /\ kmode = [k \in Calls |-> "stream"]
    /\ kparams = [k \in Calls |-> ""]
    /\ kseen = [k \in Calls |-> <<>>]
    /\ kAgentId = [k \in Calls |-> Undefined]
    /\ kOut = [k \in Calls |-> <<>>]
    /\ kResult = [k \in Calls |-> NoResult]
    /\ routerConfig = [subAgents |-> subAgents("B"), instructions |-> agentEnum("B"),
                       maxMessagesInContext |-> AgentMax("B")]

\* router.generate(options) / router.stream(options) up to the await on
\* the self-run; call k writes to its own writer k
ConcStart(k) ==
    /\ kpc[k] = "idle"
    /\ \E m \in {"generate", "stream"} :
          /\ kmode' = [kmode EXCEPT ![k] = m]
          /\ kOut' = IF m = "stream"
                     THEN [kOut EXCEPT ![k] = Append(@, StatusDetermining)]
                     ELSE kOut
    /\ kparams' = [kparams EXCEPT ![k] = IF k = 1 THEN "p1" ELSE "p2"]
    /\ kAgentId' = [kAgentId EXCEPT ![Slot(k)] = Undefined]
    /\ kpc' = [kpc EXCEPT ![k] = "selfrun"]
    /\ UNCHANGED <<kseen, kResult, routerConfig>>

\* stream: one turn of the for-await loop of call k
ConcChunk(k) ==
    /\ kpc[k] = "selfrun"
    /\ kmode[k] = "stream"
    /\ Len(kseen[k]) < MaxConcTrace
    /\ \E chunk \in Chunks("B") :
          /\ kseen' = [kseen EXCEPT ![k] = Append(@, chunk)]
          /\ kAgentId' = [kAgentId EXCEPT ![Slot(k)] = StreamChunkUpdate(@, chunk)]
    /\ UNCHANGED <<kpc, kmode, kparams, kOut, kResult, routerConfig>>

\* stream: the loop of call k ends; generate: its await resolves and the
\* steps are searched
ConcSelfRunEnds(k) ==
    /\ kpc[k] = "selfrun"
    /\ IF kmode[k] = "stream"
       THEN UNCHANGED <<kseen, kAgentId>>
       ELSE \E tr \in {t \in Traces("B") : Len(t) <= MaxConcTrace} :
              /\ kseen' = [kseen EXCEPT ![k] = tr]
              /\ kAgentId' = [kAgentId EXCEPT ![Slot(k)] = GenerateFind(tr)]
    /\ kpc' = [kpc EXCEPT ![k] = "scanned"]
    /\ UNCHANGED <<kmode, kparams, kOut, kResult, routerConfig>>

\* the tail of generate / stream of call k: look the agent up in the
\* router's map, return the own result or hand off
ConcDecide(k) ==
    /\ kpc[k] = "scanned"
    /\ LET id == kAgentId[Slot(k)]
           found == IsDef(id) /\ Val(id) \in routerConfig.subAgents
       IN IF ~found
          THEN /\ kResult' = [kResult EXCEPT ![k] =
                     [by |-> "B", kind |-> kmode[k], events |-> kseen[k],
                      params |-> kparams[k]]]
               /\ kpc' = [kpc EXCEPT ![k] = "done"]
               /\ kOut' = kOut
          ELSE /\ kResult' = [kResult EXCEPT ![k] =
                     [by |-> Val(id), kind |-> kmode[k], events |-> <<>>,
                      params |-> kparams[k]]]
               /\ kpc' = [kpc EXCEPT ![k] = "sub"]
               /\ kOut' = IF kmode[k] = "stream"
                          THEN [kOut EXCEPT ![k] = @ \o <<Handoff(Val(id)), StatusExecuting>>]
                          ELSE kOut
    /\ UNCHANGED <<kmode, kparams, kseen, kAgentId, routerConfig>>

\* agent.generate(options) / agent.stream(options) of the sub-agent of call
\* k resolves
ConcSubReturns(k) ==
    /\ kpc[k] = "sub"
    /\ kpc' = [kpc EXCEPT ![k] = "done"]
    /\ UNCHANGED <<kmode, kparams, kseen, kAgentId, kOut, kResult, routerConfig>>

(* ---------------------------------------------------------------------- *)
(* The dev command: watcher.on('change') handlers, bundleCode and          *)
(* startOrRestartServer.  Versions count the changes made under src/: the  *)
(* bundle and a server are "of version n" when built from the sources as   *)
(* they were after the n-th change.                                        *)
(* ---------------------------------------------------------------------- *)
MaxChanges == 3

VARIABLES
    srcVersion,     \* the number of change events so far
    bundle,         \* the version of .taupo/index.mjs on disk
    dpc,            \* per change handler: "none" | "building" | "waiting" | "importing" | "done"
    dReads,         \* per handler: the sources its build bundles
    dLoaded,        \* per handler: the bundle its import(bundlePath) loads
    isRestarting,   \* module-level let isRestarting
    currentServer,  \* module-level let currentServer: the version it serves
    liveServers     \* the number of servers listening on the port

devVars == <<srcVersion, bundle, dpc, dReads, dLoaded, isRestarting,
             currentServer, liveServers>>

\* devCommand has built the bundle, started the first server and installed
\* the watcher
DevInit ==
    /\ srcVersion = 0
    /\ bundle = 0
    /\ dpc = [h \in 1..MaxChanges |-> "none"]
    /\ dReads = [h \in 1..MaxChanges |-> 0]
    /\ dLoaded = [h \in 1..MaxChanges |-> 0]
    /\ isRestarting = FALSE
    /\ currentServer = Some(0)
    /\ liveServers = 1

\* a file under src/ changes: the handler runs up to `await bundleCode(...)`
DevChange ==
    /\ srcVersion < MaxChanges
    /\ srcVersion' = srcVersion + 1
    /\ dpc' = [dpc EXCEPT ![srcVersion + 1] = "building"]
    /\ dReads' = [dReads EXCEPT ![srcVersion + 1] = srcVersion + 1]
    /\ UNCHANGED <<bundle, dLoaded, isRestarting, currentServer, liveServers>>

\* the build of handler h completes and the handler enters
\* startOrRestartServer, up to its first await
DevBuildDone(h) ==
    /\ dpc[h] = "building"
    /\ bundle' = dReads[h]
    /\ IF isRestarting
       THEN /\ dpc' = [dpc EXCEPT ![h] = "done"]
            /\ UNCHANGED <<dLoaded, isRestarting, currentServer, liveServers>>
       ELSE /\ isRestarting' = TRUE
            /\ IF IsDef(currentServer)
               THEN /\ currentServer' = Undefined
                    /\ liveServers' = liveServers - 1
                    /\ dpc' = [dpc EXCEPT ![h] = "waiting"]
                    /\ dLoaded' = dLoaded
               ELSE /\ dpc' = [dpc EXCEPT ![h] = "importing"]
                    /\ dLoaded' = [dLoaded EXCEPT ![h] = bundle']
                    /\ UNCHANGED <<currentServer, liveServers>>
    /\ UNCHANGED <<srcVersion, dReads>>

\* the 100 ms timer of handler h fires: startDevServer begins and imports
\* the bundle that is on disk
DevWaitDone(h) ==
    /\ dpc[h] = "waiting"
    /\ dpc' = [dpc EXCEPT ![h] = "importing"]
    /\ dLoaded' = [dLoaded EXCEPT ![h] = bundle]
    /\ UNCHANGED <<srcVersion, bundle, dReads, isRestarting, currentServer, liveServers>>

\* the import of handler h resolves: serve(), currentServer is assigned,
\* finally isRestarting = false
DevServerStarted(h) ==
    /\ dpc[h] = "importing"
    /\ currentServer' = Some(dLoaded[h])
    /\ liveServers' = liveServers + 1
    /\ isRestarting' = FALSE
    /\ dpc' = [dpc EXCEPT ![h] = "done"]
    /\ UNCHANGED <<srcVersion, bundle, dReads, dLoaded>>

\* the variables of the subsystems outside calls, tools, artifacts and trees
restVars == <<consVars, httpVars, uiVars, concVars, devVars>>
RestInit == ConsInit /\ HttpInit /\ UiInit /\ ConcInit /\ DevInit

(* ---------------------------------------------------------------------- *)
(* State of one top-level call                                             *)
(* ---------------------------------------------------------------------- *)
VARIABLES
    pc,           \* "idle" | "selfrun" | "resolved" | "done"
    mode,         \* "generate" | "stream"
    params,       \* the options object the caller passed
    cur,          \* the agent whose generate/stream is running
    trace,        \* content parts / chunks of cur's self-run received so far
    agentId,      \* the local agentId of RouterAgent.stream
    invocations,  \* calls made on the model-invocation loop, in order
    writerLog,    \* events written to the caller's writer, in order
    console,      \* console.error lines (the unknown ids reported)
    returned,     \* what the top-level call resolved to
    error         \* what the top-level call rejected with

callVars == <<pc, mode, params, cur, trace, agentId, invocations,
              writerLog, console, returned, error>>

outsideCall == <<toolVars, artVars, treeVars, restVars>>

NoParams ==
    [prompt |-> Undefined, messages |-> Undefined, options |-> Undefined,
     abortSignal |-> Undefined, maxMessagesInContext |-> Undefined,
     writer |-> Undefined]

CallInit ==
    /\ pc = "idle"
    /\ mode = "generate"
    /\ params = NoParams
    /\ cur = ""
    /\ trace = <<>>
    /\ agentId = Undefined
    /\ invocations = <<>>
    /\ writerLog = <<>>
    /\ console = <<>>
    /\ returned = Undefined
    /\ error = Undefined


WriteReorderedBug(log, p, evs) == IF IsDef(p.writer) THEN evs \o log ELSE log

\* writer?.write(ev)
Write(log, p, evs) == IF IsDef(p.writer) THEN log \o evs ELSE log

\* Agent.generate / Agent.stream: super.generate(this.limitMessageContextLength(options))
ModelCall(a, p) ==
    [agent |-> a, received |-> p,
     forwarded |-> limitMessageContextLength(a, p),
     window |-> WindowOf(a, p)]

\* the synchronous prefix of a.generate(p) / a.stream(p), up to the await on
\* the model-invocation loop
Enter(a, p, log) ==
    /\ cur' = a
    /\ pc' = "selfrun"
    /\ trace' = <<>>
    /\ agentId' = Undefined
    /\ invocations' = Append(invocations, ModelCall(a, p))
    /\ writerLog' = IF a \in Routers /\ mode' = "stream"
                    THEN Write(log, p, <<StatusDetermining>>)
                    ELSE log

\* the value a call resolves to: a GenerateTextResult or a StreamTextResult
Result(a, m, tr) == [by |-> a, kind |-> m, events |-> tr]

Call(a, m, p) ==
    /\ UNCHANGED outsideCall
    /\ pc = "idle"
    /\ mode' = m
    /\ params' = p
    /\ Enter(a, p, writerLog)
    /\ UNCHANGED <<console, returned, error>>

\* the model-invocation loop rejects: the error propagates to the caller
SelfRunFails ==
    /\ UNCHANGED outsideCall
    /\ pc = "selfrun"
    /\ trace = <<>>
    /\ pc' = "done"
    /\ error' = Some("ModelInvocationError")
    /\ UNCHANGED <<mode, params, cur, trace, agentId, invocations,
                   writerLog, console, returned>>

\* Agent.generate / Agent.stream of a leaf resolve with the loop's result
LeafCompletes ==
    /\ UNCHANGED outsideCall
    /\ pc = "selfrun"
    /\ cur \in Leaves
    /\ pc' = "done"
    /\ returned' = Some(Result(cur, mode, <<>>))
    /\ UNCHANGED <<mode, params, cur, trace, agentId, invocations,
                   writerLog, console, error>>

\* agent.generate(options as any) / agent.stream(options as any)
DelegateParamsTrimmedBug(r, options) == limitMessageContextLength(r, options)

DelegateParamsCappedBug(r, options) ==
    [options EXCEPT !.maxMessagesInContext =
                        EffectiveMax(options.maxMessagesInContext, AgentMax(r))]

DelegateParams(r, options) == options

DecideRetryBug(id, tr) ==
    LET agent == Resolve(cur, id)
        target == IF IsDef(agent) THEN Val(agent) ELSE cur
    IN /\ UNCHANGED <<mode, params, error>>
       /\ console' = IF IsDef(id) /\ ~IsDef(agent)
                     THEN Append(console, Val(id)) ELSE console
       /\ IF ~IsDef(agent) /\ (~IsDef(id) \/ console # <<>>)
          THEN /\ returned' = Some(Result(cur, mode, tr))
               /\ pc' = "done"
               /\ UNCHANGED <<cur, trace, agentId, invocations, writerLog>>
          ELSE /\ returned' = returned
               /\ Enter(target, params, writerLog)

\* the tail of RouterAgent.generate / RouterAgent.stream after agentId is known
Decide(id, tr) ==
    LET agent == Resolve(cur, id)
    IN /\ UNCHANGED <<mode, params, error>>
       /\ console' = IF IsDef(id) /\ ~IsDef(agent)
                     THEN Append(console, Val(id)) ELSE console
       /\ IF ~IsDef(agent)
          THEN /\ returned' = Some(Result(cur, mode, tr))
               /\ pc' = "done"
               /\ UNCHANGED <<cur, trace, agentId, invocations, writerLog>>
          ELSE /\ returned' = returned
               /\ Enter(Val(agent), DelegateParams(cur, params),
                        IF mode = "stream"
                        THEN Write(writerLog, params,
                                   <<Handoff(Val(agent)), StatusExecuting>>)
                        ELSE writerLog)

DelegatesWhileRunningBug(p) == p \in {"selfrun", "resolved"}

\* the statements after `await super.generate(options)`, and after the
\* for-await loop over fullStream, are reached: the self-run is over
SelfRunEnded(p) == p = "resolved"

\* `await super.generate(options)` resolves with routerResult
GenerateResolves ==
    /\ UNCHANGED outsideCall
    /\ pc = "selfrun"
    /\ cur \in Routers
    /\ mode = "generate"
    /\ \E tr \in Traces(cur) : trace' = tr
    /\ pc' = "resolved"
    /\ UNCHANGED <<mode, params, cur, agentId, invocations, writerLog,
                   console, returned, error>>

\* RouterAgent.generate after the await: scan routerResult.steps and delegate
GenerateContinues ==
    /\ UNCHANGED outsideCall
    /\ SelfRunEnded(pc)
    /\ mode = "generate"
    /\ Decide(GenerateFind(trace), trace)

\* RouterAgent.stream: one iteration of `for await (const chunk of fullStream)`
StreamChunk ==
    /\ UNCHANGED outsideCall
    /\ pc = "selfrun"
    /\ cur \in Routers
    /\ mode = "stream"
    /\ Len(trace) < MaxTrace
    /\ \E c \in Chunks(cur) :
          /\ trace' = Append(trace, c)
          /\ agentId' = StreamChunkUpdate(agentId, c)
    /\ UNCHANGED <<pc, mode, params, cur, invocations, writerLog,
                   console, returned, error>>

\* fullStream of the router's self-run ends: the for-await loop exits
StreamEnd ==
    /\ UNCHANGED outsideCall
    /\ pc = "selfrun"
    /\ cur \in Routers
    /\ mode = "stream"
    /\ pc' = "resolved"
    /\ UNCHANGED <<mode, params, cur, trace, agentId, invocations, writerLog,
                   console, returned, error>>

\* RouterAgent.stream after the loop: resolve agentId and delegate
StreamContinues ==
    /\ UNCHANGED outsideCall
    /\ SelfRunEnded(pc)
    /\ mode = "stream"
    /\ Decide(agentId, trace)

\* a caller invokes generate or stream on the root router; the other agents
\* are reached by delegation
EntryAgents == {"A"}

StartCall ==
    \E a \in EntryAgents, m \in {"generate", "stream"}, p \in AgentCallParameters :
        Call(a, m, p)

Init == CallInit /\ ToolInit /\ ArtInit /\ TreeInit /\ RestInit

Next ==
    \/ StartCall
    \/ SelfRunFails
    \/ LeafCompletes
    \/ GenerateResolves
    \/ GenerateContinues
    \/ StreamChunk
    \/ StreamEnd
    \/ StreamContinues

vars == <<callVars, toolVars, artVars, treeVars, restVars>>

Spec == Init /\ [][Next]_vars

\* tool executions of one call after another
ToolNext ==
    \/ PrepareCall /\ UNCHANGED <<callVars, artVars, treeVars, restVars>>
    \/ ToolExecute /\ UNCHANGED <<callVars, artVars, treeVars, restVars>>
    \/ SelectAgentExecute /\ UNCHANGED <<callVars, artVars, treeVars, restVars>>
    \/ ToolCallEnds /\ UNCHANGED <<callVars, artVars, treeVars, restVars>>

SpecTool == Init /\ [][ToolNext]_vars

\* one artifact within one tool execution
ArtifactNext ==
    \/ ArtifactCreate /\ UNCHANGED <<callVars, toolVars, treeVars, restVars>>
    \/ ArtifactUpdate /\ UNCHANGED <<callVars, toolVars, treeVars, restVars>>

SpecArtifact == Init /\ [][ArtifactNext]_vars

\* calls that differ in the writer only: a prompt, nothing else
RouteParams ==
    {p \in AgentCallParameters :
        /\ IsDef(p.prompt) /\ ~IsDef(p.messages)
        /\ ~IsDef(p.options) /\ ~IsDef(p.maxMessagesInContext)}

StartRouteCall ==
    \E a \in EntryAgents, m \in {"generate", "stream"}, p \in RouteParams :
        Call(a, m, p)

\* what a tool of a leaf writes to options.writer while the leaf runs
LeafEvent(a) == WriterEvent("data-artifact", a)

\* a tool of the running leaf writes an event to the call's writer
LeafWrites ==
    /\ UNCHANGED outsideCall
    /\ pc = "selfrun"
    /\ cur \in Leaves
    /\ IsDef(params.writer)
    /\ Cardinality({j \in 1..Len(writerLog) : writerLog[j] = LeafEvent(cur)})
          < MaxLeafWrites
    /\ writerLog' = Write(writerLog, params, <<LeafEvent(cur)>>)
    /\ UNCHANGED <<pc, mode, params, cur, trace, agentId, invocations,
                   console, returned, error>>

\* a call on the root router with the events its leaf writes
RouteNext ==
    \/ StartRouteCall
    \/ SelfRunFails
    \/ LeafCompletes
    \/ LeafWrites
    \/ GenerateResolves
    \/ GenerateContinues
    \/ StreamChunk
    \/ StreamEnd
    \/ StreamContinues

SpecRoute == Init /\ [][RouteNext]_vars

\* descriptions of the registered agents between changes of the sub-agent maps
TreeNext ==
    \/ Describe /\ UNCHANGED <<callVars, toolVars, artVars, restVars>>
    \/ SubAgentSet /\ UNCHANGED <<callVars, toolVars, artVars, restVars>>
    \/ SubAgentDelete /\ UNCHANGED <<callVars, toolVars, artVars, restVars>>

SpecTree == Init /\ [][TreeNext]_vars

\* the same calls when every model invocation terminates and the caller's
\* awaits are resumed
SpecRouteLive == Init /\ [][RouteNext]_vars /\ WF_vars(RouteNext)

\* the variables of calls, tools, artifacts and trees
coreVars == <<callVars, toolVars, artVars, treeVars>>

\* construction of a router and the lookups of its routing
ConstructNext ==
    \/ Construct /\ UNCHANGED <<coreVars, httpVars, uiVars, concVars, devVars>>
    \/ RouteTo /\ UNCHANGED <<coreVars, httpVars, uiVars, concVars, devVars>>

SpecConstruct == Init /\ [][ConstructNext]_vars

\* one HTTP request on a per-agent endpoint
HttpNext ==
    \/ HandleRequest /\ UNCHANGED <<coreVars, consVars, uiVars, concVars, devVars>>
    \/ SseChunk /\ UNCHANGED <<coreVars, consVars, uiVars, concVars, devVars>>
    \/ SseFails /\ UNCHANGED <<coreVars, consVars, uiVars, concVars, devVars>>
    \/ SseEnds /\ UNCHANGED <<coreVars, consVars, uiVars, concVars, devVars>>

SpecHttp == Init /\ [][HttpNext]_vars

\* one chat request answered by createAgentUIStreamResponse
UiNext ==
    \/ UiCreate /\ UNCHANGED <<coreVars, consVars, httpVars, concVars, devVars>>
    \/ UiExecute /\ UNCHANGED <<coreVars, consVars, httpVars, concVars, devVars>>
    \/ UiMergedEvent /\ UNCHANGED <<coreVars, consVars, httpVars, concVars, devVars>>
    \/ UiClose /\ UNCHANGED <<coreVars, consVars, httpVars, concVars, devVars>>

SpecUi == Init /\ [][UiNext]_vars

\* two concurrent top-level calls on one router, interleaved at their awaits
ConcNext ==
    \/ \E k \in Calls : ConcStart(k) /\ UNCHANGED <<coreVars, consVars, httpVars, uiVars, devVars>>
    \/ \E k \in Calls : ConcChunk(k) /\ UNCHANGED <<coreVars, consVars, httpVars, uiVars, devVars>>
    \/ \E k \in Calls : ConcSelfRunEnds(k) /\ UNCHANGED <<coreVars, consVars, httpVars, uiVars, devVars>>
    \/ \E k \in Calls : ConcDecide(k) /\ UNCHANGED <<coreVars, consVars, httpVars, uiVars, devVars>>
    \/ \E k \in Calls : ConcSubReturns(k) /\ UNCHANGED <<coreVars, consVars, httpVars, uiVars, devVars>>

SpecConc == Init /\ [][ConcNext]_vars

\* the dev command after start-up: changes and the steps of their handlers
DevHandlers ==
    \/ \E h \in 1..MaxChanges : DevBuildDone(h) /\ UNCHANGED <<coreVars, consVars, httpVars, uiVars, concVars>>
    \/ \E h \in 1..MaxChanges : DevWaitDone(h) /\ UNCHANGED <<coreVars, consVars, httpVars, uiVars, concVars>>
    \/ \E h \in 1..MaxChanges : DevServerStarted(h) /\ UNCHANGED <<coreVars, consVars, httpVars, uiVars, concVars>>

DevNext ==
    \/ DevChange /\ UNCHANGED <<coreVars, consVars, httpVars, uiVars, concVars>>
    \/ DevHandlers

\* builds, timers and imports in progress complete; changes need not happen
SpecDevLive == Init /\ [][DevNext]_vars /\ WF_vars(DevHandlers)

\* one tool execution of one call, creating an artifact from its context
ToolArtifactNext ==
    \/ PrepareCall /\ UNCHANGED <<callVars, artVars, treeVars, restVars>>
    \/ ToolExecute /\ UNCHANGED <<callVars, artVars, treeVars, restVars>>
    \/ SelectAgentExecute /\ UNCHANGED <<callVars, artVars, treeVars, restVars>>
    \/ ToolCreatesArtifact /\ UNCHANGED <<callVars, treeVars, restVars>>

SpecToolArtifact == Init /\ [][ToolArtifactNext]_vars

(* ====================================================================== *)
(* Claims about routing and message windowing                              *)
(* ====================================================================== *)

\* the sub-agent names that the selectAgent results of a self-run trace give
SelectedIds(tr) == {tr[i].agentId : i \in {j \in 1..Len(tr) : IsSelect(tr[j])}}

\* the last n elements of s, in order
LastN(s, n) == [i \in 1..n |-> s[Len(s) - n + i]]

ValidParams(p) == IsDef(p.prompt) # IsDef(p.messages)

\* C1: every agent entered during a call, at every hop of a delegation, is
\* invoked with the caller's original parameters (all fields equal), and what
\* reaches the model-invocation loop differs from them at most in the
\* messages window: prompt, options, abortSignal, per-call window and writer
\* are the caller's.
C1_OriginalParamsAtEveryHop ==
    \A i \in 1..Len(invocations) :
        /\ invocations[i].received = params
        /\ invocations[i].forwarded.prompt = params.prompt
        /\ invocations[i].forwarded.options = params.options
        /\ invocations[i].forwarded.abortSignal = params.abortSignal
        /\ invocations[i].forwarded.maxMessagesInContext = params.maxMessagesInContext
        /\ invocations[i].forwarded.writer = params.writer

C1_Witness ==
    /\ Len(invocations) = 3
    /\ invocations[3].agent = "C"
    /\ params.messages = Some(<<1, 2>>)
    /\ ~IsDef(params.maxMessagesInContext)
    /\ invocations[2].forwarded.messages = Some(<<2>>)
    /\ IsDef(params.options) /\ IsDef(params.abortSignal) /\ IsDef(params.writer)

\* C2: at the decision point of a router whose self-run trace holds no
\* selectAgent result naming one of its sub-agents (no result at all, or only
\* unknown ids), the call ends with the router's own result, without an error,
\* without a further invocation and without a handoff event.
C2_FallbackStep ==
    (pc = "resolved" /\ SelectedIds(trace) \cap agentEnum(cur) = {})
        => /\ pc' = "done"
           /\ returned' = Some(Result(cur, mode, trace))
           /\ error' = Undefined
           /\ invocations' = invocations
           /\ writerLog' = writerLog

\* C2: every step of a call is such a fallback step when its router has no
\* known selection to act on.
C2_UnknownOrNoSelectionReturnsOwn == [][C2_FallbackStep]_vars

C2_Witness ==
    /\ pc = "done"
    /\ cur = "B"
    /\ trace = <<SelectResult(Ghost)>>
    /\ returned = Some(Result("B", mode, trace))
    /\ console = <<Ghost>>

\* C3: for every self-run trace, the sub-agent that RouterAgent.stream resolves
\* (the id left by its chunk loop) is the sub-agent RouterAgent.generate
\* resolves (the id its scan of the steps finds).
C3_StreamDecidesAsGenerate ==
    pc = "resolved" =>
        Resolve(cur, StreamScan(Undefined, trace)) = Resolve(cur, GenerateFind(trace))

\* C4: in the chain A -> B -> C, when A's self-run selects B and B's self-run
\* selects C, the call on A is handed over to B, then to C, and resolves to
\* C's own result (generate) or stream handle (stream).
C4_ChainStep ==
    /\ (pc = "resolved" /\ cur = "A" /\ SelectedIds(trace) = {"B"})
          => (cur' = "B" /\ pc' = "selfrun" /\ returned' = Undefined)
    /\ (pc = "resolved" /\ cur = "B" /\ SelectedIds(trace) = {"C"})
          => (cur' = "C" /\ pc' = "selfrun" /\ returned' = Undefined)
    /\ (pc = "selfrun" /\ cur = "C" /\ pc' = "done" /\ error' = Undefined)
          => returned' = Some(Result("C", mode, <<>>))

\* C4: every step of a call on A follows the chain A -> B -> C to C's result.
C4_ChainResolvesToLeaf == [][C4_ChainStep]_vars

C4_Witness ==
    /\ pc = "done"
    /\ Len(invocations) = 3
    /\ invocations[1].agent = "A" /\ invocations[2].agent = "B"
    /\ returned = Some(Result("C", "stream", <<>>))

\* C5: whenever a leaf is invoked with a message list of length M and an
\* effective window N, 0 <= N < M, the model-invocation loop is handed exactly
\* the last N messages in their original order.
C5_LastNForwarded ==
    \A i \in 1..Len(invocations) :
        LET c == invocations[i]
        IN (/\ c.agent \in Leaves
            /\ IsDef(c.received.messages)
            /\ IsDef(c.window)
            /\ Val(c.window) < Len(Val(c.received.messages)))
           => c.forwarded.messages =
                  Some(LastN(Val(c.received.messages), Val(c.window)))

\* C6: the window an agent applies is the per-call maxMessagesInContext
\* whenever the call gives one (0 included, larger than the agent's included),
\* the agent's own value only when the call gives none; when neither is set
\* the message list is forwarded unmodified.
C6_PerCallWindowWins ==
    \A i \in 1..Len(invocations) :
        LET c == invocations[i]
        IN /\ IsDef(params.maxMessagesInContext)
                => c.window = params.maxMessagesInContext
           /\ ~IsDef(params.maxMessagesInContext)
                => c.window = AgentMax(c.agent)
           /\ (~IsDef(params.maxMessagesInContext) /\ ~IsDef(AgentMax(c.agent)))
                => c.forwarded = c.received
           /\ (/\ IsDef(params.maxMessagesInContext)
               /\ Val(params.maxMessagesInContext) > 0
               /\ IsDef(params.messages)
               /\ Len(Val(params.messages)) >= Val(params.maxMessagesInContext))
                => c.forwarded.messages =
                       Some(LastN(Val(params.messages),
                                  Val(params.maxMessagesInContext)))

C6_Witness ==
    /\ Len(invocations) = 3
    /\ invocations[3].agent = "E"
    /\ AgentMax("E") = Some(0)
    /\ params.maxMessagesInContext = Some(1)
    /\ params.messages = Some(<<1, 2>>)
    /\ invocations[3].window = Some(1)
    /\ invocations[3].forwarded.messages = Some(<<2>>)

\* C7: a call whose parameters set both prompt and messages, or neither, never
\* reaches the model-invocation loop: every invocation carries valid parameters.
C7_InvalidCallNeverDispatched ==
    \A i \in 1..Len(invocations) : ValidParams(invocations[i].received)

(* ====================================================================== *)
(* Claims about the hidden writer channel                                  *)
(* ====================================================================== *)

C9_CallerKeysPreserved ==
    tpc = "executed" =>
        \A k \in CtxKeys : tUserCtx[k] # Absent => tExecCtx[k] = tUserCtx[k]

(* ====================================================================== *)
(* Claims about the artifact merge reducer                                 *)
(* ====================================================================== *)

\* merge of records key by key at every nesting level; anything else replaces
MergeInner(x, y) ==
    IF x.t = "rec" /\ y.t = "rec"
    THEN InnerRec([k \in InnerKeys |->
                      IF y.f[k].t = "nofield" THEN x.f[k] ELSE y.f[k]])
    ELSE y

DeepMerge(x, y) ==
    IF x.t = "rec" /\ y.t = "rec"
    THEN TopRec(IF y.f["a"].t = "nofield" THEN x.f["a"]
                ELSE MergeInner(x.f["a"], y.f["a"]),
                IF y.f["b"].t = "nofield" THEN x.f["b"]
                ELSE MergeInner(x.f["b"], y.f["b"]))
    ELSE y

\* C10: an update whose partial and current state are records emits the deep
\* merge of the partial into the current state: nested record fields are
\* merged key by key and nested keys the partial does not name are kept
\* (create({a:1,b:{c:1}}) then update({b:{d:2}}) emits {a:1,b:{c:1,d:2}}).
C10_UpdateStep ==
    (/\ apc = "live"
     /\ artUpdates' = artUpdates + 1
     /\ artError' = Undefined
     /\ currentData.t = "rec"
     /\ artArg'.t = "rec")
        => artWritten' = DeepMerge(currentData, artArg')

\* C10: every successful update of a record by a record emits their deep merge.
C10_UpdateDeepMerges == [][C10_UpdateStep]_vars

\* C11: an update replaces arrays and primitives, it never merges them: when
\* current state and partial are records, every key the partial names with an
\* array, a primitive or null takes the partial's value as it is and every key
\* of the current state the partial does not name is kept; when the current
\* state or the partial is null, an array or a primitive, the partial becomes
\* the current state wholesale.  What a successful update emits is that state
\* (update({b:[1,2]}) then update({b:[3]}) on {a:1,b:{..}} emits {a:1,b:[3]}).
C11_UpdateStep ==
    (apc = "live" /\ artUpdates' = artUpdates + 1)
        => /\ (currentData.t # "rec" \/ artArg'.t # "rec")
                 => currentData' = artArg'
           /\ (currentData.t = "rec" /\ artArg'.t = "rec")
                 => /\ currentData'.t = "rec"
                    /\ \A k \in TopKeys :
                          /\ artArg'.f[k].t \in {"arr", "prim", "null"}
                                => currentData'.f[k] = artArg'.f[k]
                          /\ (artArg'.f[k].t = "nofield" /\ currentData.f[k].t # "nofield")
                                => currentData'.f[k] = currentData.f[k]
           /\ artError' = Undefined => artWritten' = currentData'

\* C11: every update call replaces arrays and primitives.
C11_UpdateReplacesArrays == [][C11_UpdateStep]_vars

C11_Witness ==
    /\ apc = "live"
    /\ artUpdates = 2
    /\ artError = Undefined
    /\ artArg = TopRec(NoInner, Inner("arr", "3"))
    /\ currentData = TopRec(Inner("prim", "1"), Inner("arr", "3"))
    /\ artWritten = TopRec(Inner("prim", "1"), Inner("arr", "3"))
    /\ artWrites = 3

\* a whole-value replacement that is emitted: the partial is an array
C11_WitnessWholesale ==
    /\ apc = "live"
    /\ artUpdates = 1
    /\ artError = Undefined
    /\ artArg = Top("arr", "3")
    /\ currentData = Top("arr", "3")
    /\ artWritten = Top("arr", "3")

\* C12: an update validates the merged value against the schema before it
\* writes: when the merged value does not validate, the update call rejects
\* and the writer receives no event for it; an event an update writes carries
\* a value that validates.
C12_UpdateStep ==
    (apc = "live" /\ artUpdates' = artUpdates + 1)
        => LET merged == mergeWithPartialDefaults(artSchema, currentData, artArg')
           IN /\ ~Validates(artSchema, merged)
                    => /\ IsDef(artError')
                       /\ artWrites' = artWrites
                       /\ artWritten' = artWritten
              /\ Validates(artSchema, merged)
                    => /\ artError' = Undefined
                       /\ artWrites' = artWrites + 1
                       /\ artWritten' = merged

\* C12: every update call validates before it writes.
C12_UpdateValidatesBeforeWrite == [][C12_UpdateStep]_vars

C12_Witness ==
    /\ apc = "live"
    /\ artUpdates = 1
    /\ artArg = TopRec(Inner("null", ""), NoInner)
    /\ ~Validates(artSchema, currentData)
    /\ artError = Some("TypeValidationError")
    /\ artWrites = 1
    /\ artWritten = TopRec(Inner("prim", "1"), NoInner)

\* C13: create called with a context that carries no writer rejects with the
\* missing-writer error, writes no event and returns no update handle (no
\* update call can follow).
C13_CreateStep ==
    (apc = "none" /\ apc' # "none" /\ artCtx'["writer"] = Absent)
        => /\ artError' = Some("No writer found in execution options")
           /\ artWrites' = artWrites
           /\ artWritten' = artWritten
           /\ apc' = "failed"
           /\ ~(ENABLED ArtifactUpdate)'

\* C13: every create call without a writer fails that way.
C13_CreateWithoutWriterFails == [][C13_CreateStep]_vars

C13_Witness ==
    /\ apc = "failed"
    /\ artCtx["writer"] = Absent
    /\ artArg = TopRec(Inner("prim", "1"), Inner("arr", "3"))
    /\ artError = Some("No writer found in execution options")
    /\ artWrites = 0
    /\ artUpdates = 0

\* C14: when the agent call supplied a writer and a tool built with tool()
\* calls create(initial, options.experimental_context) with an initial value
\* the schema accepts, create succeeds with the call's writer and the initial
\* data-artifact event is written to that writer.
C14_CreateFindsCallWriter ==
    (/\ tpc = "executed"
     /\ tKind = "wrapped"
     /\ tWriter = TheWriter
     /\ apc # "none"
     /\ Validates(artSchema, mergeWithPartialDefaults(artSchema, EmptyObject, artArg)))
        => /\ apc = "live"
           /\ artError = Undefined
           /\ artWriter = tWriter
           /\ artWrites = 1
           /\ artWritten = artArg

\* C15: create validates the initial value spread over the schema's partial
\* defaults and keeps that merged value as the current state, while the event
\* it writes carries the initial value as passed; the first update merges its
\* partial onto the kept current state.
C15_CreateStep ==
    LET withDefaults ==
            IF artArg'.t = "rec" /\ artSchema'.partial
            THEN SpreadRec(artSchema'.defaults, artArg')
            ELSE artArg'
    IN /\ (apc = "none" /\ apc' = "live")
            => /\ Validates(artSchema', withDefaults)
               /\ currentData' = withDefaults
               /\ artWritten' = artArg'
               /\ artWrites' = artWrites + 1
       /\ (apc = "none" /\ apc' = "failed" /\ ~MissingWriter(ContextWriter(artCtx')))
            => /\ ~Validates(artSchema', withDefaults)
               /\ artWrites' = artWrites
       /\ (apc = "live" /\ artUpdates = 0 /\ artUpdates' = 1)
            => currentData' =
                   mergeWithPartialDefaults(artSchema, currentData, artArg')

\* C15: every create call, and the first update after it, behaves so.
C15_CreateEmitsUnmerged == [][C15_CreateStep]_vars

C15_Witness ==
    /\ apc = "live"
    /\ artUpdates = 0
    /\ artSchema.defaults = TopRec(Inner("prim", "2"), InnerRec(NoInnerFields))
    /\ artArg = TopRec(NoInner, Inner("arr", "1,2"))
    /\ artWritten = TopRec(NoInner, Inner("arr", "1,2"))
    /\ currentData = TopRec(Inner("prim", "2"), Inner("arr", "1,2"))
    /\ artWrites = 1

(* ====================================================================== *)
(* Claims about the events of a streamed routing call                      *)
(* ====================================================================== *)

\* what the router entered at hop i writes: its status event and, when it
\* handed the call over to hop i + 1, the handoff and the second status event
HopEvents(i) ==
    IF invocations[i].agent \in Routers
    THEN <<StatusDetermining>> \o
         (IF i < Len(invocations)
          THEN <<Handoff(invocations[i + 1].agent), StatusExecuting>>
          ELSE <<>>)
    ELSE <<>>

RECURSIVE RouterEvents(_)
RouterEvents(i) ==
    IF i > Len(invocations) THEN <<>> ELSE HopEvents(i) \o RouterEvents(i + 1)

\* C16: in a streamed call with a writer the writer has received, hop by hop
\* from the outermost router inwards, one 'determining' status event written
\* as the router is entered and, only for a router that resolved a sub-agent,
\* one handoff event naming that sub-agent followed by one 'executing' status
\* event; whatever the delegated leaf writes comes after all of them.  A
\* router that resolved no sub-agent has written no handoff event.
C16_StreamEventOrder ==
    (mode = "stream" /\ pc # "idle" /\ IsDef(params.writer))
        => LET n == Len(RouterEvents(1))
           IN /\ Len(writerLog) >= n
              /\ SubSeq(writerLog, 1, n) = RouterEvents(1)
              /\ \A j \in (n + 1)..Len(writerLog) :
                    cur \in Leaves /\ writerLog[j] = LeafEvent(cur)
              /\ (pc = "done" /\ cur \in Routers /\ error = Undefined)
                    => \A j \in 1..Len(writerLog) :
                          writerLog[j].type = "data-handoff"
                              => writerLog[j].data \notin agentEnum(cur)

C16_Witness ==
    /\ mode = "stream"
    /\ pc = "done"
    /\ writerLog = <<StatusDetermining, Handoff("B"), StatusExecuting,
                     StatusDetermining, Handoff("C"), StatusExecuting,
                     LeafEvent("C")>>

\* C18: routing is sequential.  An agent other than the entry agent is
\* entered only by the router running the call, only once that router's
\* self-run is over (generate resolved, or fullStream read to its end), and it
\* is one of that router's sub-agents; chunks of a self-run are read only
\* while that router is the one running; in the hops of a call every router
\* appears once and is followed by at most one sub-agent of its own.
C18_SequentialStep ==
    /\ (invocations' # invocations /\ invocations # <<>>)
          => /\ pc = "resolved"
             /\ cur \in Routers
             /\ invocations' = Append(invocations, invocations'[Len(invocations')])
             /\ invocations'[Len(invocations')].agent \in agentEnum(cur)
             /\ cur' = invocations'[Len(invocations')].agent
             /\ pc' = "selfrun"
    /\ (trace' # trace /\ trace' # <<>>)
          => (pc = "selfrun" /\ cur' = cur /\ invocations' = invocations)
    /\ \A i, j \in 1..Len(invocations') :
          i # j => invocations'[i].agent # invocations'[j].agent
    /\ \A i \in 1..(Len(invocations') - 1) :
          /\ invocations'[i].agent \in Routers
          /\ invocations'[i + 1].agent \in agentEnum(invocations'[i].agent)

\* C18: every step of a call keeps routing sequential.
C18_RoutingSequential == [][C18_SequentialStep]_vars

C18_Witness ==
    /\ pc = "selfrun"
    /\ mode = "stream"
    /\ Len(invocations) = 3
    /\ invocations[1].agent = "A"
    /\ invocations[2].agent = "B"
    /\ invocations[3].agent = "E"
    /\ writerLog = <<>>

(* ====================================================================== *)
(* Claims about the introspection tree                                     *)
(* ====================================================================== *)

\* whether node is the description of leaf a as the claim words it: type
\* 'agent', the agent's name, capabilities and model id, and its tool names
IsLeafDescription(node, a) ==
    /\ node.type = "agent"
    /\ node.name = a
    /\ node.capabilities = AgentInfo(a).capabilities
    /\ node.model = AgentInfo(a).model
    /\ node.tools = Some(IF IsDef(ToolNames(a)) THEN Val(ToolNames(a)) ELSE <<>>)

\* C19: a leaf is described by a node of type 'agent' with its name,
\* capabilities, model id and the list of its tool names, both when the leaf
\* itself is described and when it is a sub-agent in a described router's tree.
C19_LeafNodeListsTools ==
    /\ (IsDef(described) /\ Val(described) \in Leaves)
          => IsLeafDescription(tree, Val(described))
    /\ (IsDef(described) /\ Val(described) \in Routers)
          => \A i \in 1..Len(Val(tree.subAgents)) :
                Val(tree.subAgents)[i].name \in Leaves
                    => IsLeafDescription(Val(tree.subAgents)[i],
                                         Val(tree.subAgents)[i].name)

\* whether node describes agent a over the sub-agent maps m: a router node
\* has one sub-node per entry of its map, in map order, each describing that
\* entry
RECURSIVE Describes(_, _, _)
Describes(node, a, m) ==
    /\ node.name = a
    /\ IF a \in Routers
       THEN /\ node.type = "router"
            /\ IsDef(node.subAgents)
            /\ Len(Val(node.subAgents)) = Len(m[a])
            /\ \A i \in 1..Len(m[a]) :
                  Describes(Val(node.subAgents)[i], m[a][i], m)
       ELSE node.type = "agent" /\ node.subAgents = Undefined

\* C20: a call describing a router returns a node of type 'router' with
\* exactly one sub-node per entry of the live sub-agent map, in map order,
\* nested routers described the same way; the call reads the maps as they are
\* then, so additions and removals made before it show, and as long as no
\* map is changed a further call returns a tree equal to the one returned.
C20_DescribeStep ==
    /\ (dirty' = FALSE /\ IsDef(described') /\ Val(described') \in Routers)
          => Describes(tree', Val(described'), rmap')
    /\ (dirty' = FALSE /\ IsDef(described'))
          => getAgentTree(Val(described'), rmap') = tree'

\* C20: every step leaves the latest description true to the live maps.
C20_TreeFollowsLiveMap == [][C20_DescribeStep]_vars

C20_Witness ==
    /\ dirty = FALSE
    /\ mutations = 2
    /\ described = Some("A")
    /\ rmap["A"] = <<"B", "C">>
    /\ rmap["B"] = <<"C", "E">>
    /\ tree = RouterNode("A", rmap)
    /\ Len(Val(tree.subAgents)) = 2
    /\ Val(tree.subAgents)[2].name = "C"
    /\ Val(tree.subAgents)[1].type = "router"

(* ====================================================================== *)
(* Claims about failed updates, construction, termination and windows      *)
(* ====================================================================== *)

\* C27: an update that fails validation leaves the artifact's accumulated
\* state as it was before the call, so that a later successful update merges
\* onto the last validated state.
C27_FailedUpdateStep ==
    (apc = "live" /\ artUpdates' = artUpdates + 1 /\ IsDef(artError'))
        => currentData' = currentData

\* C27: every failed update call leaves currentData unchanged.
C27_FailedUpdateKeepsState == [][C27_FailedUpdateStep]_vars

\* C30: a router trims a copy.  During a call the caller's params and message
\* list stay as passed; every sub-agent entered receives them whole, applies
\* its own window (the per-call value if given, else its own
\* maxMessagesInContext) to the full original list, and is not limited by the
\* cap of a router above it.
C30_TrimStep ==
    /\ pc # "idle" => params' = params
    /\ \A i \in 2..Len(invocations') :
          LET c == invocations'[i]
          IN /\ c.received = params'
             /\ c.received.messages = params'.messages
             /\ c.window = IF IsDef(params'.maxMessagesInContext)
                           THEN params'.maxMessagesInContext
                           ELSE AgentMax(c.agent)
             /\ c.forwarded = limitMessageContextLength(c.agent, params')
             /\ ~IsDef(c.window) => c.forwarded.messages = params'.messages

\* C30: every step of a call keeps the router's trimming to the router.
C30_RouterTrimStaysLocal == [][C30_TrimStep]_vars

C30_Witness ==
    /\ Len(invocations) = 3
    /\ invocations[2].agent = "B"
    /\ invocations[3].agent = "C"
    /\ ~IsDef(params.maxMessagesInContext)
    /\ params.messages = Some(<<1, 2>>)
    /\ invocations[2].forwarded.messages = Some(<<2>>)
    /\ invocations[3].received.messages = Some(<<1, 2>>)
    /\ invocations[3].forwarded.messages = Some(<<1, 2>>)
    /\ mode = "generate"

\* the number of routers on the longest path below a
RECURSIVE DepthBelow(_)
DepthBelow(a) ==
    IF a \in Leaves THEN 0
    ELSE LET below == {DepthBelow(SubAgentList(a)[i]) : i \in 1..Len(SubAgentList(a))}
         IN 1 + (CHOOSE n \in below : \A k \in below : k <= n)

\* the hops of the call form one path from the entry agent downwards, no
\* agent on it entered twice, at most DepthBelow(entry) of them delegations
OnePath ==
    /\ Len(invocations) <= DepthBelow("A") + 1
    /\ \A i, j \in 1..Len(invocations) :
          i # j => invocations[i].agent # invocations[j].agent
    /\ \A i \in 1..(Len(invocations) - 1) :
          /\ invocations[i].agent \in Routers
          /\ invocations[i + 1].agent \in agentEnum(invocations[i].agent)

\* the call has ended with one result: that of the last agent entered, a
\* leaf's after delegation or a router's own
OneTerminal ==
    pc = "done"
        => /\ IsDef(returned) # IsDef(error)
           /\ cur = invocations[Len(invocations)].agent
           /\ IsDef(returned) => Val(returned).by = cur

\* C29: in the tree A -> (B -> (C, E), D) every call whose model invocations
\* terminate ends, after at most as many hops as the tree is deep, in one
\* terminal state: the result of the one agent at the end of the path taken;
\* every router on the path ran once and no agent off the path was entered.
C29_TerminatesOnOnePath ==
    /\ [](OnePath /\ OneTerminal)
    /\ (pc = "selfrun") ~> (pc = "done")

C29_Witness ==
    /\ pc = "done"
    /\ Len(invocations) = DepthBelow("A") + 1
    /\ invocations[1].agent = "A"
    /\ invocations[2].agent = "B"
    /\ returned = Some(Result("E", "generate", <<>>))

\* C28: after construction from any list of sub-agents, the map has one entry
\* per agent supplied and the lookup of each supplied agent's name by routing
\* returns that agent; the names the selectAgent tool accepts, the keys of
\* the map and the names listed in the instructions are the same set.
C28_EverySuppliedAgentResolvable ==
    cpc # "new"
        => /\ Len(cMap) = Len(cList)
           /\ \A i \in 1..Len(cList) :
                 RouteLookup(cMap, cList[i].name) = Some(cList[i])
           /\ {cEnum[i] : i \in 1..Len(cEnum)} = {cMap[i].key : i \in 1..Len(cMap)}
           /\ {cEnum[i] : i \in 1..Len(cEnum)} = {cInstr[i] : i \in 1..Len(cInstr)}

(* ====================================================================== *)
(* Claims about the HTTP boundary                                          *)
(* ====================================================================== *)

\* C21: on every per-agent endpoint a name that is no registered key gets
\* HTTP 404 with error 'Agent not found' and details that hold the name,
\* whatever the body is, and no agent is invoked.
C21_UnknownAgent404 ==
    (hpc # "idle" /\ hReq.name \notin RegisteredKeys)
        => /\ hReply.status = 404
           /\ hReply.body.status = 404
           /\ hReply.body.error = "Agent not found"
           /\ hReply.body.details =
                  Some("No agent registered with name: " \o hReq.name)
           /\ ~hReply.invoked
           /\ ~hReply.streaming
           /\ hpc = "closed"

C21_Witness ==
    /\ hpc = "closed"
    /\ hReq = [endpoint |-> "chat", name |-> "non-existent", body |-> "invalid json"]
    /\ hReply.status = 404

\* C22: for a registered agent, generate and stream answer 400 'Invalid
\* request body' without invoking the agent when the body is no valid JSON or
\* holds neither prompt nor messages, and chat answers 400 when messages is
\* missing or no array.
C22_BadBody400 ==
    (/\ hpc # "idle"
     /\ hReq.name \in RegisteredKeys
     /\ \/ /\ hReq.endpoint \in {"generate", "stream"}
           /\ ~HasPrompt(hReq.body) /\ ~HasMessages(hReq.body)
        \/ /\ hReq.endpoint = "chat"
           /\ ~MessagesIsArray(hReq.body))
        => /\ hReply.status = 400
           /\ hReply.body.error = "Invalid request body"
           /\ ~hReply.invoked

\* C23: on generate, stream and chat a failure of the model invocation or of
\* a tool, also one that happens while the stream is produced, gives an HTTP
\* 500 response whose body is { status, error, details? } with status 500.
C23_Failure500 ==
    (/\ hpc # "idle"
     /\ hReq.endpoint \in {"generate", "stream", "chat"}
     /\ hFailed \/ (hReply.invoked /\ hReply.body.error = "Agent execution failed"))
        => /\ hReply.status = 500
           /\ hReply.body.status = 500
           /\ hReply.body.error # ""

(* ====================================================================== *)
(* Claims about the UI stream                                              *)
(* ====================================================================== *)

\* C24: for one chat request the message id is generated once, the response
\* holds at most one start event (one, written first by the outer stream,
\* unless sendStart is false), the merged stream writes none, and every event
\* that carries a message id carries that one id, for a leaf and for a router
\* that delegates.
C24_OneStartOneId ==
    /\ uIdCalls <= 1
    /\ Cardinality({i \in 1..Len(uOut) :
                       uOut[i].type \in {"start", "merged-start"}}) <= 1
    /\ \A i \in 1..Len(uOut) :
          /\ uOut[i].type # "merged-start"
          /\ uOut[i].type = "start" => i = 1
          /\ uOut[i].id # "" => uOut[i].id = messageId
    /\ (upc \in {"merging", "closed"} /\ uOptions.sendStart # Some(FALSE))
          => (uOut # <<>> /\ uOut[1] = UiEvent("start", messageId))

C24_Witness ==
    /\ upc = "closed"
    /\ uHops = 3
    /\ uOptions = [sendStart |-> Some(TRUE), generate |-> TRUE]
    /\ Len(uOut) = 9
    /\ uOut[1] = UiEvent("start", "caller-id")
    /\ uOut[9] = UiEvent("text-delta", "caller-id")

(* ====================================================================== *)
(* Claims about concurrent calls                                           *)
(* ====================================================================== *)

\* the agent the self-run of call k selected, by the scan of its mode
C25_Selected(k) ==
    LET id == IF kmode[k] = "stream" THEN StreamScan(Undefined, kseen[k])
              ELSE GenerateFind(kseen[k])
    IN Resolve("B", id)

\* C25: with two calls in flight on one router, in every interleaving each
\* call's routing decision and result are the function of its own params and
\* its own self-run, each writer holds exactly the events of its own call in
\* issue order, and the router's configuration is what it was constructed
\* with.
C25_CallsIndependent ==
    /\ routerConfig = [subAgents |-> subAgents("B"), instructions |-> agentEnum("B"),
                       maxMessagesInContext |-> AgentMax("B")]
    /\ \A k \in Calls :
          LET sel == C25_Selected(k)
              decided == kpc[k] \in {"sub", "done"}
          IN /\ decided =>
                  kResult[k] = [by |-> IF IsDef(sel) THEN Val(sel) ELSE "B",
                                kind |-> kmode[k],
                                events |-> IF IsDef(sel) THEN <<>> ELSE kseen[k],
                                params |-> IF k = 1 THEN "p1" ELSE "p2"]
             /\ kOut[k] =
                  IF kpc[k] = "idle" \/ kmode[k] = "generate" THEN <<>>
                  ELSE <<StatusDetermining>> \o
                       (IF decided /\ IsDef(sel)
                        THEN <<Handoff(Val(sel)), StatusExecuting>> ELSE <<>>)

\* both calls are done, one handed off to C while the other, started and
\* scanned in between, returned the router's own stream
C25_Witness ==
    /\ kpc = [k \in Calls |-> "done"]
    /\ kmode = [k \in Calls |-> "stream"]
    /\ kResult[1].by = "C"
    /\ kResult[2].by = "B"
    /\ kseen[2] = <<TextChunk>>
    /\ kOut[1] = <<StatusDetermining, Handoff("C"), StatusExecuting>>
    /\ kOut[2] = <<StatusDetermining>>

(* ====================================================================== *)
(* Claims about the dev command                                            *)
(* ====================================================================== *)

\* C26: every change under src/ is eventually followed by a running server
\* started from a bundle that includes it, also when the change arrives
\* while a rebuild or restart is in progress, and never are two servers
\* live on the port.
C26_ChangeLeadsToRestart ==
    /\ [](liveServers <= 1)
    /\ \A n \in 1..MaxChanges :
          (srcVersion = n) ~> (IsDef(currentServer) /\ Val(currentServer) >= n)

====
